---- MODULE Spec2Model ----
(***************************************************************************)
(* A model of scripts/build_sms.py: the name resolution                    *)
(* (roster_owner_maps), the matchup pairing (pair_by_matchup_id), the      *)
(* matchup lines (build_matchup_lines) and the assembly of the text        *)
(* (build_sms).                                                            *)
(*                                                                         *)
(* JSON scalars are pairs <<tag, text>>: <<"null", "">> is None,           *)
(* <<"missing", "">> is a key that is not in the dict, <<"int", "12">> the *)
(* integer 12, <<"float", "95.5">> a float and <<"str", "abc">> a string.  *)
(* Keeping the tag is what lets str(1) and str("1") be told apart before   *)
(* the conversion and coincide after it.                                   *)
(* JSON containers are records [kind, items]: kind "null" (None), "list"   *)
(* (a list of items) or "obj" (one object that is not a list, items[1]).   *)
(***************************************************************************)
EXTENDS Integers, Sequences, FiniteSets, TLC

VARIABLES
    pc,           \* which function of the run has returned
    users,        \* j["users"]
    rosters,      \* j["rosters"]
    rid_to_user,  \* the dict roster_owner_maps returns
    rows,         \* the matchup rows given to pair_by_matchup_id
    pairs,        \* the list pair_by_matchup_id returns
    lines,        \* what build_matchup_lines returns (or that it raised)
    j,            \* the document given to build_sms
    sms           \* what build_sms returns (or that it raised)

vars == <<pc, users, rosters, rid_to_user, rows, pairs, lines, j, sms>>

----------------------------------------------------------------------------
(* Values *)

None == <<"null", "">>
Missing == <<"missing", "">>
IntV(t) == <<"int", t>>
FloatV(t) == <<"float", t>>
StrV(t) == <<"str", t>>

\* d.get(k): the value, None when the key is missing.
Get(v) == IF v = Missing THEN None ELSE v

\* d.get(k, default)
GetOr(v, default) == IF v = Missing THEN default ELSE v

\* Python truth of a scalar: None, 0, 0.0 and "" are false.
Truthy(v) ==
    /\ v # None
    /\ v # Missing
    /\ v # IntV("0")
    /\ v # FloatV("0.0")
    /\ v # StrV("")

\* a or b
Or(a, b) == IF Truthy(a) THEN a ELSE b

\* str(v), also what an f-string's {v} writes.
PyStr(v) == IF v = None THEN "None" ELSE v[2]

NullC == [kind |-> "null", items |-> <<>>]
ListC(xs) == [kind |-> "list", items |-> xs]
ObjC(x) == [kind |-> "obj", items |-> <<x>>]

is_listlike(x) == x.kind = "list"

as_list(x) ==
    IF x.kind = "null" THEN <<>>
    ELSE IF is_listlike(x) THEN x.items
    ELSE <<x.items[1]>>

\* A dict is a function from its keys; d[k] = v is DictSet.
EmptyDict == [k \in {} |-> None]
DictSet(d, k, v) == [x \in (DOMAIN d) \cup {k} |-> IF x = k THEN v ELSE d[x]]
DictGet(d, k) == IF k \in DOMAIN d THEN d[k] ELSE None
DictGetOr(d, k, default) == IF k \in DOMAIN d THEN d[k] ELSE default

----------------------------------------------------------------------------
(* roster_owner_maps *)

\* A user is [user_id, team_name, display_name, username]; team_name is
\* metadata.team_name, None when metadata is missing, null or has no such key.
\* A roster is [roster_id, owner_id, team_name, players]; team_name is the team
\* name the roster itself carries (settings / metadata), which roster_owner_maps
\* never reads; players is the container of its player ids.

UserNm(u) ==
    Or(Or(Or(Get(u.team_name), Get(u.display_name)), Get(u.username)),
       StrV("user_" \o PyStr(GetOr(u.user_id, StrV("?")))))

RECURSIVE UserNameLoop(_, _)
UserNameLoop(us, user_name) ==
    IF us = <<>> THEN user_name
    ELSE UserNameLoop(Tail(us),
                      DictSet(user_name, Get(Head(us).user_id), UserNm(Head(us))))

RosterNm(r, user_name) ==
    Or(DictGet(user_name, Get(r.owner_id)), StrV("Team " \o PyStr(Get(r.roster_id))))

RECURSIVE RidToUserLoop(_, _, _)
RidToUserLoop(rs, user_name, acc) ==
    IF rs = <<>> THEN acc
    ELSE RidToUserLoop(Tail(rs), user_name,
                       DictSet(acc, Get(Head(rs).roster_id), RosterNm(Head(rs), user_name)))

roster_owner_maps(us, rs) ==
    RidToUserLoop(as_list(rs), UserNameLoop(as_list(us), EmptyDict), EmptyDict)

nice_team(rid, m) ==
    DictGetOr(m, rid, StrV("Team " \o PyStr(Or(rid, StrV("?")))))

----------------------------------------------------------------------------
(* pair_by_matchup_id *)

\* A matchup row is [roster_id, matchup_id, points, starters_points]; a key the
\* dict does not have is Missing, and {} has none.
EmptyRow ==
    [roster_id |-> Missing, matchup_id |-> Missing,
     points |-> Missing, starters_points |-> Missing]

\* bool(row): a dict is true when it has a key.
RowTruthy(r) == r # EmptyRow

\* A list holds references: an element of a bucket or of a pair is
\* [at, row], the row and its position in the input; the {} that pads a
\* single row is a new object, at position 0.
Ref(rs, i) == [at |-> i, row |-> rs[i]]
Placeholder == [at |-> 0, row |-> EmptyRow]

\* by[str(key)].append(m): `by` keeps its keys in the order of insertion.
BucketKey(m) == PyStr(Get(m.matchup_id))

Append1(by, key, x) ==
    IF \E n \in 1..Len(by) : by[n].key = key
    THEN [n \in 1..Len(by) |->
            IF by[n].key = key
            THEN [key |-> key, bucket |-> Append(by[n].bucket, x)]
            ELSE by[n]]
    ELSE Append(by, [key |-> key, bucket |-> <<x>>])

RECURSIVE GroupLoop(_, _, _)
GroupLoop(rs, i, by) ==
    IF i > Len(rs) THEN by
    ELSE GroupLoop(rs, i + 1, Append1(by, BucketKey(rs[i]), Ref(rs, i)))

RECURSIVE PairLoop(_, _)
PairLoop(by, acc) ==
    IF by = <<>> THEN acc
    ELSE LET bucket == Head(by).bucket IN
         PairLoop(Tail(by),
                  IF Len(bucket) >= 2 THEN Append(acc, <<bucket[1], bucket[2]>>)
                  ELSE IF Len(bucket) = 1 THEN Append(acc, <<bucket[1], Placeholder>>)
                  ELSE acc)

pair_by_matchup_id(rs) == PairLoop(GroupLoop(rs, 1, <<>>), <<>>)

----------------------------------------------------------------------------
(* build_matchup_lines *)

SmsCap == 3

\* format(v, ".1f"): defined for int and float, ValueError for a str.
CanFormat(v) == v[1] \in {"int", "float"}
Fmt1(v) == IF v[1] = "int" THEN v[2] \o ".0" ELSE v[2]

Score(r) == Or(Or(Get(r.points), Get(r.starters_points)), IntV("0"))

TeamA(p, m) == nice_team(Get(p[1].row.roster_id), m)
TeamB(p, m) ==
    IF RowTruthy(p[2].row) THEN nice_team(Get(p[2].row.roster_id), m) ELSE StrV("TBD")

LineRaises(p) ==
    /\ Truthy(Score(p[1].row)) \/ Truthy(Score(p[2].row))
    /\ ~CanFormat(Score(p[1].row)) \/ ~CanFormat(Score(p[2].row))

\* The em dash of the source is written "--".
LineOf(p, m) ==
    IF Truthy(Score(p[1].row)) \/ Truthy(Score(p[2].row))
    THEN PyStr(TeamA(p, m)) \o " vs " \o PyStr(TeamB(p, m)) \o " -- "
         \o Fmt1(Score(p[1].row)) \o "-" \o Fmt1(Score(p[2].row))
    ELSE PyStr(TeamA(p, m)) \o " vs " \o PyStr(TeamB(p, m))

Take(xs, n) == SubSeq(xs, 1, IF Len(xs) < n THEN Len(xs) ELSE n)

\* [raised, out]: the exception leaves the function before any line is returned.
build_matchup_lines(ps, m) ==
    IF \E n \in 1..Len(ps) : LineRaises(ps[n])
    THEN [raised |-> TRUE, out |-> <<>>]
    ELSE [raised |-> FALSE, out |-> Take([n \in 1..Len(ps) |-> LineOf(ps[n], m)], SmsCap)]

----------------------------------------------------------------------------
(* safe_matchup_chunks *)

\* j["matchups"] is [shape, current, next]: shape "dict" (current and next are
\* its two values), "list" (current holds the list itself) or "other"
\* (missing, null, a number: anything else). An element of a list of matchup
\* records is [nested, rows]: one row (rows[1]) or, nested, a list of rows.

RECURSIVE flatten(_)
flatten(xs) ==
    IF xs = <<>> THEN <<>>
    ELSE IF Head(xs).nested THEN Head(xs).rows \o flatten(Tail(xs))
    ELSE <<Head(xs).rows[1]>> \o flatten(Tail(xs))

safe_matchup_chunks(doc) ==
    LET matchups == doc.matchups
        current_raw == IF matchups.shape = "dict" THEN as_list(matchups.current)
                       ELSE IF matchups.shape = "list" THEN matchups.current.items
                       ELSE <<>>
        next_raw == IF matchups.shape = "dict" THEN as_list(matchups.next) ELSE <<>>
    IN <<flatten(current_raw), flatten(next_raw)>>

----------------------------------------------------------------------------
(* trending_blurbs *)

WaiverCap == 6
TradeForCap == 5
TradeAwayCap == 5

\* A trending item is [player_id, player_name, name, full_name, first_name,
\* position, pos, team, pro_team].

RECURSIVE OwnedOf(_)
OwnedOf(rs) ==
    IF rs = <<>> THEN {}
    ELSE {PyStr(pid) : pid \in {as_list(Head(rs).players)[n] :
                                  n \in 1..Len(as_list(Head(rs).players))}}
         \cup OwnedOf(Tail(rs))

label(x) ==
    LET nm == Or(Or(Or(Get(x.player_name), Get(x.name)), Get(x.full_name)),
                 Get(x.first_name))
        position == Or(Get(x.position), Get(x.pos))
        tm == Or(Get(x.team), Get(x.pro_team))
    IN IF Truthy(nm)
       THEN PyStr(nm)
            \o (IF Truthy(position) THEN " " \o PyStr(position) ELSE "")
            \o (IF Truthy(tm) THEN " (" \o PyStr(tm) \o ")" ELSE "")
       ELSE "Player " \o PyStr(GetOr(x.player_id, StrV("?")))

RECURSIVE Labels(_, _, _)
Labels(xs, owned, wantOwned) ==
    IF xs = <<>> THEN <<>>
    ELSE LET pid == PyStr(Get(Head(xs).player_id)) IN
         (IF pid # "" /\ ((pid \in owned) = wantOwned) THEN <<label(Head(xs))>> ELSE <<>>)
         \o Labels(Tail(xs), owned, wantOwned)

\* drop_counts has a key for str(player_id) of every drop with a true player_id.
RECURSIVE DropLabels(_, _)
DropLabels(xs, counted) ==
    IF xs = <<>> THEN <<>>
    ELSE (IF PyStr(Get(Head(xs).player_id)) \in counted /\ label(Head(xs)) # ""
          THEN <<label(Head(xs))>> ELSE <<>>)
         \o DropLabels(Tail(xs), counted)

RECURSIVE Dedup(_, _)
Dedup(ts, seen) ==
    IF ts = <<>> THEN <<>>
    ELSE IF Head(ts) \in seen THEN Dedup(Tail(ts), seen)
    ELSE <<Head(ts)>> \o Dedup(Tail(ts), seen \cup {Head(ts)})

\* j["trending"] is [kind, add, drop]: kind "missing", "null" or "obj".
\* j.get("trending", {}).get("add") raises AttributeError on a null.
TrendingRaises(doc) == doc.trending.kind = "null"

trending_blurbs(doc) ==
    LET owned == OwnedOf(as_list(doc.rosters))
        adds == IF doc.trending.kind = "obj" THEN as_list(doc.trending.add) ELSE <<>>
        drops == IF doc.trending.kind = "obj" THEN as_list(doc.trending.drop) ELSE <<>>
        counted == {PyStr(Get(drops[n].player_id)) :
                      n \in {k \in 1..Len(drops) : Truthy(Get(drops[k].player_id))}}
    IN [waiver_adds |-> Take(Labels(adds, owned, FALSE), WaiverCap),
        trade_for |-> Take(Labels(adds, owned, TRUE), TradeForCap),
        trade_away |-> Take(Dedup(DropLabels(drops, counted), {}), TradeAwayCap)]

----------------------------------------------------------------------------
(* build_sms *)

\* j["league"] is [kind, name, metadata, metadata_name]: kind "missing",
\* "null" or "obj"; metadata "missing", "null" or "obj".
\* league.get("metadata", {}).get("name") is reached when the name is false,
\* and raises AttributeError on a null metadata.
LeagueOf(doc) ==
    IF doc.league.kind = "obj" THEN doc.league
    ELSE [kind |-> "obj", name |-> Missing, metadata |-> "missing", metadata_name |-> Missing]

LeagueRaises(doc) ==
    /\ ~Truthy(Get(LeagueOf(doc).name))
    /\ LeagueOf(doc).metadata = "null"

LgName(doc) ==
    LET league == LeagueOf(doc) IN
    Or(Or(Get(league.name),
          IF league.metadata = "obj" THEN Get(league.metadata_name) ELSE None),
       StrV("League"))

\* datetime.fromtimestamp(fetched_at) raises TypeError unless it is a number.
TimestampRaises(doc) == Get(doc.fetched_at)[1] \notin {"int", "float"}

\* strftime("%b %d, %I:%M %p") of the local time: a text fixed by fetched_at.
Strftime(v) == "ts" \o v[2]

\* The emoji of the source are left out; the bullet is written "*".
Headline(doc) ==
    PyStr(LgName(doc)) \o " -- Week " \o PyStr(Get(doc.week)) \o " Preview"
KeyMatchups == "Key Matchups:"
Closer == "Good luck. Set lineups, win friends, fleece responsibly."

Bullets(xs) == [n \in 1..Len(xs) |-> "* " \o xs[n]]

\* A bug: the pairs of both weeks, one after the other.
ChosenPairsBothWeeks(cur_pairs, nxt_pairs) == cur_pairs \o nxt_pairs

\* cur_pairs or nxt_pairs
ChosenPairs(cur_pairs, nxt_pairs) == IF cur_pairs # <<>> THEN cur_pairs ELSE nxt_pairs

\* A bug: the section printed even when it is empty.
MatchupSectionPrintedEmpty(cur_pairs, nxt_pairs, ml) ==
    <<KeyMatchups>> \o Bullets(ml) \o <<"">>

MatchupSection(cur_pairs, nxt_pairs, ml) ==
    IF cur_pairs # <<>> \/ nxt_pairs # <<>>
    THEN <<KeyMatchups>> \o Bullets(ml) \o <<"">>
    ELSE <<>>

\* [raised, out]: out is the list `lines`; the text returned is its lines joined
\* by "\n", stripped (the first and the last line are not blank) and ended by "\n".
build_sms(doc) ==
    LET m == roster_owner_maps(ListC(as_list(doc.users)), ListC(as_list(doc.rosters)))
        chunks == safe_matchup_chunks(doc)
        cur_pairs == pair_by_matchup_id(chunks[1])
        nxt_pairs == pair_by_matchup_id(chunks[2])
        t == trending_blurbs(doc)
        ml == build_matchup_lines(ChosenPairs(cur_pairs, nxt_pairs), m)
    IN IF \/ LeagueRaises(doc)
          \/ TimestampRaises(doc)
          \/ TrendingRaises(doc)
          \/ ml.raised
       THEN [raised |-> TRUE, out |-> <<>>]
       ELSE [raised |-> FALSE,
             out |-> <<Headline(doc), "(auto-pulled " \o Strftime(Get(doc.fetched_at)) \o ")", "">>
                     \o MatchupSection(cur_pairs, nxt_pairs, ml.out)
                     \o (IF t.waiver_adds # <<>>
                         THEN <<"Waiver Adds:">> \o Bullets(t.waiver_adds) \o <<"">>
                         ELSE <<>>)
                     \o (IF t.trade_for # <<>>
                         THEN <<"Trade For (buy):">> \o Bullets(t.trade_for) ELSE <<>>)
                     \o (IF t.trade_away # <<>>
                         THEN <<"Trade Away (sell):">> \o Bullets(t.trade_away) ELSE <<>>)
                     \o (IF t.trade_for # <<>> \/ t.trade_away # <<>> THEN <<"">> ELSE <<>>)
                     \o <<Closer>>]

----------------------------------------------------------------------------
(* Bounded inputs *)

MaxUsers == 2
MaxRosters == 2

SeqUpTo(S, n) == UNION {[1..k -> S] : k \in 0..n}

UserIds == {Missing, None, StrV("u1")}
OwnerIds == {Missing, None, StrV("u1"), StrV("u2")}
RosterIds == {IntV("1"), IntV("2")}

UserSet ==
    [user_id : UserIds,
     team_name : {None, StrV("Aces")},
     display_name : {Missing, StrV("Sam")},
     username : {Missing, StrV("sam1")}]

RosterSet ==
    [roster_id : RosterIds,
     owner_id : OwnerIds,
     team_name : {None, StrV("Wolves")},
     players : {NullC}]

\* A league's rosters have distinct roster ids.
DistinctIds(rs) ==
    \A a, b \in 1..Len(rs) : a # b => rs[a].roster_id # rs[b].roster_id

UsersInputs == {NullC} \cup {ListC(us) : us \in SeqUpTo(UserSet, MaxUsers)}
RostersInputs ==
    {NullC} \cup {ListC(rs) : rs \in {x \in SeqUpTo(RosterSet, MaxRosters) : DistinctIds(x)}}

MaxRows == 4

MatchupIds == {Missing, None, IntV("1"), StrV("1"), StrV("None")}

RowSet ==
    [roster_id : {IntV("1")},
     matchup_id : MatchupIds,
     points : {Missing, IntV("100"), StrV("abc")},
     starters_points : {Missing}]
    \cup {EmptyRow}

NameMaps == {EmptyDict, DictSet(EmptyDict, IntV("1"), StrV("Wolves"))}

MaxCur == 4
MaxNxt == 1

Row(rid, mid, pts) ==
    [roster_id |-> rid, matchup_id |-> mid, points |-> pts, starters_points |-> Missing]
One(r) == [nested |-> FALSE, rows |-> <<r>>]
Nested(rs) == [nested |-> TRUE, rows |-> rs]

\* A week of a league: rosters 1 and 2 meet in matchup 1 (roster 2 alone, or both
\* in a nested list), 3 alone in matchup 2, 4 in matchup 3, 5 in matchup 4;
\* roster 6 has no matchup and a score that is a string.
CurItems ==
    {One(Row(IntV("2"), IntV("1"), FloatV("95.5"))),
     One(Row(IntV("3"), IntV("2"), Missing)),
     One(Row(IntV("4"), IntV("3"), Missing)),
     One(Row(IntV("5"), IntV("4"), Missing)),
     One(Row(IntV("6"), Missing, StrV("abc"))),
     Nested(<<Row(IntV("1"), IntV("1"), IntV("100")), Row(IntV("2"), IntV("1"), Missing)>>)}

NxtItems ==
    {One(Row(IntV("2"), IntV("1"), Missing)),
     One(Row(IntV("3"), IntV("1"), IntV("7")))}

MatchupsInputs ==
    [shape : {"dict"},
     current : {NullC} \cup {ListC(xs) : xs \in SeqUpTo(CurItems, MaxCur)},
     next : {NullC} \cup {ListC(xs) : xs \in SeqUpTo(NxtItems, MaxNxt)}]
    \cup [shape : {"list"},
          current : {ListC(xs) : xs \in SeqUpTo(CurItems, MaxCur)},
          next : {NullC}]
    \cup [shape : {"other"}, current : {NullC}, next : {NullC}]

FewMatchups ==
    {[shape |-> "other", current |-> NullC, next |-> NullC],
     [shape |-> "list", current |-> ListC(<<>>), next |-> NullC],
     [shape |-> "dict",
      current |-> ObjC(One(Row(IntV("1"), IntV("1"), IntV("100")))),
      next |-> NullC]}

Item(pid, nm, position, tm) ==
    [player_id |-> pid, player_name |-> nm, name |-> Missing, full_name |-> Missing,
     first_name |-> Missing, position |-> position, pos |-> Missing,
     team |-> tm, pro_team |-> Missing]

SomeTrending ==
    [kind |-> "obj",
     add |-> ListC(<<Item(StrV("p1"), StrV("Kelce"), StrV("TE"), StrV("KC")),
                     Item(StrV("p9"), Missing, Missing, Missing)>>),
     drop |-> ListC(<<Item(StrV("p9"), Missing, Missing, Missing),
                      Item(StrV("p9"), Missing, Missing, Missing)>>)]

TrendingInputs ==
    {SomeTrending,
     [kind |-> "obj", add |-> NullC, drop |-> NullC],
     [kind |-> "missing", add |-> NullC, drop |-> NullC],
     [kind |-> "null", add |-> NullC, drop |-> NullC]}

SomeLeague ==
    [kind |-> "obj", name |-> StrV("Dynasty"), metadata |-> "missing",
     metadata_name |-> Missing]

LeagueInputs ==
    {SomeLeague,
     [kind |-> "missing", name |-> Missing, metadata |-> "missing", metadata_name |-> Missing],
     [kind |-> "null", name |-> Missing, metadata |-> "missing", metadata_name |-> Missing],
     [kind |-> "obj", name |-> Missing, metadata |-> "null", metadata_name |-> Missing],
     [kind |-> "obj", name |-> Missing, metadata |-> "obj", metadata_name |-> StrV("Meta")],
     [kind |-> "obj", name |-> Missing, metadata |-> "obj", metadata_name |-> Missing]}

SomeUsers ==
    ListC(<<[user_id |-> StrV("u1"), team_name |-> None,
             display_name |-> StrV("Sam"), username |-> StrV("sam1")]>>)

SomeRosters ==
    ListC(<<[roster_id |-> IntV("1"), owner_id |-> StrV("u1"), team_name |-> None,
             players |-> ListC(<<StrV("p1")>>)],
            [roster_id |-> IntV("2"), owner_id |-> Missing, team_name |-> None,
             players |-> NullC]>>)

\* Every shape of the matchups under one header, and every header over a few
\* matchups.
DocInputs ==
    [league : {SomeLeague}, week : {IntV("3")}, fetched_at : {IntV("1700000000")},
     users : {SomeUsers}, rosters : {SomeRosters},
     matchups : MatchupsInputs, trending : {SomeTrending}]
    \cup [league : LeagueInputs, week : {Missing, IntV("3")},
          fetched_at : {Missing, IntV("1700000000")},
          users : {NullC, SomeUsers}, rosters : {NullC, SomeRosters},
          matchups : FewMatchups, trending : TrendingInputs]

NoLines == [raised |-> FALSE, out |-> <<>>]
NoDoc ==
    [league |-> SomeLeague, week |-> Missing, fetched_at |-> Missing, users |-> NullC,
     rosters |-> NullC, matchups |-> [shape |-> "other", current |-> NullC, next |-> NullC],
     trending |-> [kind |-> "missing", add |-> NullC, drop |-> NullC]]

InitNames ==
    /\ pc = "start"
    /\ users \in UsersInputs
    /\ rosters \in RostersInputs
    /\ rid_to_user = EmptyDict
    /\ rows = <<>>
    /\ pairs = <<>>
    /\ lines = NoLines
    /\ j = NoDoc
    /\ sms = NoLines

RosterOwnerMaps ==
    /\ pc = "start"
    /\ rid_to_user' = roster_owner_maps(users, rosters)
    /\ pc' = "named"
    /\ UNCHANGED <<users, rosters, rows, pairs, lines, j, sms>>

NextNames == RosterOwnerMaps

SpecNames == InitNames /\ [][NextNames]_vars

InitPairs ==
    /\ pc = "start"
    /\ users = NullC
    /\ rosters = NullC
    /\ rid_to_user \in NameMaps
    /\ rows \in SeqUpTo(RowSet, MaxRows)
    /\ pairs = <<>>
    /\ lines = NoLines
    /\ j = NoDoc
    /\ sms = NoLines

PairByMatchupId ==
    /\ pc = "start"
    /\ pairs' = pair_by_matchup_id(rows)
    /\ pc' = "paired"
    /\ UNCHANGED <<users, rosters, rid_to_user, rows, lines, j, sms>>

BuildMatchupLines ==
    /\ pc = "paired"
    /\ lines' = build_matchup_lines(pairs, rid_to_user)
    /\ pc' = "lined"
    /\ UNCHANGED <<users, rosters, rid_to_user, rows, pairs, j, sms>>

NextPairs == PairByMatchupId \/ BuildMatchupLines

SpecPairs == InitPairs /\ [][NextPairs]_vars

InitSms ==
    /\ pc = "start"
    /\ users = NullC
    /\ rosters = NullC
    /\ rid_to_user = EmptyDict
    /\ rows = <<>>
    /\ pairs = <<>>
    /\ lines = NoLines
    /\ j \in DocInputs
    /\ sms = NoLines

BuildSms ==
    /\ pc = "start"
    /\ sms' = build_sms(j)
    /\ pc' = "done"
    /\ UNCHANGED <<users, rosters, rid_to_user, rows, pairs, lines, j>>

NextSms == BuildSms

SpecSms == InitSms /\ [][NextSms]_vars

----------------------------------------------------------------------------
(* Name resolution: what the specification says of roster_owner_maps *)

UserList == as_list(users)
RosterList == as_list(rosters)

\* The users a roster's owner reference names: none when the reference is
\* missing or null.
OwnersOf(r) ==
    IF Get(r.owner_id) = None THEN {}
    ELSE {n \in 1..Len(UserList) : Get(UserList[n].user_id) = Get(r.owner_id)}

Nameless(u) ==
    /\ ~Truthy(Get(u.team_name))
    /\ ~Truthy(Get(u.display_name))
    /\ ~Truthy(Get(u.username))

Fallback(r) == StrV("Team " \o PyStr(Get(r.roster_id)))

MapsTo(r, nm) ==
    /\ Get(r.roster_id) \in DOMAIN rid_to_user
    /\ rid_to_user[Get(r.roster_id)] = nm

NoResolvableName(r) ==
    /\ ~Truthy(Get(r.team_name))
    /\ \A n \in OwnersOf(r) : Nameless(UserList[n])

\* C1: a roster with no resolvable name at any level (no owning user, or an
\* owning user with no metadata team name, no display name and no username) is
\* mapped to exactly "Team <roster_id>".
C1_FallbackWhenNoName ==
    pc = "named" =>
        \A n \in 1..Len(RosterList) :
            NoResolvableName(RosterList[n]) => MapsTo(RosterList[n], Fallback(RosterList[n]))

\* The first non-empty name in the specification's order, for one owning user.
SpecName(r, u) ==
    Or(Or(Or(Or(Get(r.team_name), Get(u.team_name)), Get(u.display_name)),
          Get(u.username)),
       Fallback(r))

SpecNameChoices(r) ==
    IF OwnersOf(r) = {} THEN {Or(Get(r.team_name), Fallback(r))}
    ELSE {SpecName(r, UserList[n]) : n \in OwnersOf(r)}

\* C2: the name of a roster is the first non-empty of: the roster's own team
\* name, the owning user's metadata team name, display name, username, then
\* "Team <roster_id>"; a roster that carries its own team name resolves to it.
C2_ResolutionOrder ==
    pc = "named" =>
        \A n \in 1..Len(RosterList) :
            /\ Get(RosterList[n].roster_id) \in DOMAIN rid_to_user
            /\ rid_to_user[Get(RosterList[n].roster_id)] \in SpecNameChoices(RosterList[n])

\* C8: a roster whose owner reference is missing, null or names no user is
\* mapped to "Team <roster_id>" whatever other user records there are, and no
\* roster collection gives the empty map.
C8_UnownedFallsBack ==
    pc = "named" =>
        /\ \A n \in 1..Len(RosterList) :
               OwnersOf(RosterList[n]) = {} =>
                   MapsTo(RosterList[n], Fallback(RosterList[n]))
        /\ rosters = NullC => rid_to_user = EmptyDict

----------------------------------------------------------------------------
(* Pairing: what the specification says of pair_by_matchup_id *)

\* The positions of the rows that carry the identifier k.
RowsWith(k) == {i \in 1..Len(rows) : Get(rows[i].matchup_id) = k}
PresentIds == {Get(rows[i].matchup_id) : i \in 1..Len(rows)} \ {None}

\* The pairs that hold a row carrying the identifier k.
PairsFor(k) ==
    {n \in 1..Len(pairs) :
        \/ pairs[n][1].at \in RowsWith(k)
        \/ pairs[n][2].at \in RowsWith(k)}

Min(S) == CHOOSE x \in S : \A y \in S : x <= y

\* C3: an identifier shared by exactly two rows gives exactly one pair, made of
\* both rows, the earlier row first.
C3_TwoRowsOnePair ==
    pc = "paired" =>
        \A k \in PresentIds :
            Cardinality(RowsWith(k)) = 2 =>
                /\ Cardinality(PairsFor(k)) = 1
                /\ \A n \in PairsFor(k) :
                       /\ pairs[n][1].at = Min(RowsWith(k))
                       /\ pairs[n][2].at = Min(RowsWith(k) \ {pairs[n][1].at})

\* The line of a single row: its team, "TBD" and, when it has a score, the
\* score against 0.0.
SingleLine(r) ==
    PyStr(nice_team(Get(r.roster_id), rid_to_user)) \o " vs TBD"
    \o (IF Truthy(Score(r)) THEN " -- " \o Fmt1(Score(r)) \o "-0.0" ELSE "")

\* C4: an identifier carried by exactly one row gives exactly one pair, that
\* row with a placeholder, and build_matchup_lines renders the placeholder
\* side as "TBD".
C4_SingletonPadded ==
    /\ pc \in {"paired", "lined"} =>
           \A k \in PresentIds :
               Cardinality(RowsWith(k)) = 1 =>
                   /\ Cardinality(PairsFor(k)) = 1
                   /\ \A n \in PairsFor(k) :
                          pairs[n][1].at \in RowsWith(k) /\ pairs[n][2] = Placeholder
    /\ pc = "lined" =>
           \A n \in 1..Len(pairs) :
               (n <= SmsCap /\ pairs[n][2] = Placeholder) =>
                   /\ ~lines.raised
                   /\ n <= Len(lines.out)
                   /\ lines.out[n] = SingleLine(pairs[n][1].row)

\* C5: no pair holds a row without a matchup identifier together with a row
\* that has one (the string "None" included); two rows are in one group only
\* if their identifiers are equal.
C5_NullIdsKeptApart ==
    pc = "paired" =>
        \A n \in 1..Len(pairs) :
            pairs[n][2].at # 0 =>
                Get(pairs[n][1].row.matchup_id) = Get(pairs[n][2].row.matchup_id)

\* The positions of the rows that are in some pair.
Paired == {pairs[n][1].at : n \in 1..Len(pairs)} \cup {pairs[n][2].at : n \in 1..Len(pairs)}

\* C6: at most one pair per identifier, the pairs in the order in which their
\* identifiers are first seen, and a group of three or more rows gives the pair
\* of its first two rows, with no later row of the group in any pair.
C6_FirstTwoInOrder ==
    pc = "paired" =>
        /\ \A n, o \in 1..Len(pairs) :
               n < o =>
                   /\ Get(pairs[n][1].row.matchup_id) # Get(pairs[o][1].row.matchup_id)
                   /\ pairs[n][1].at < pairs[o][1].at
        /\ \A k \in PresentIds \cup {None} :
               Cardinality(RowsWith(k)) >= 3 =>
                   LET first == Min(RowsWith(k))
                       second == Min(RowsWith(k) \ {first})
                   IN /\ \E n \in 1..Len(pairs) :
                             pairs[n][1].at = first /\ pairs[n][2].at = second
                      /\ \A i \in RowsWith(k) \ {first, second} : i \notin Paired

\* C7: a score of the wrong type never makes build_matchup_lines raise: it
\* still returns the lines of the pairs.
C7_BadScoreNeverRaises ==
    pc = "lined" =>
        /\ ~lines.raised
        /\ Len(lines.out) = (IF Len(pairs) < SmsCap THEN Len(pairs) ELSE SmsCap)

----------------------------------------------------------------------------
(* The text: what the specification says of build_sms *)

Range(xs) == {xs[n] : n \in 1..Len(xs)}

CurRows == safe_matchup_chunks(j)[1]
NxtRows == safe_matchup_chunks(j)[2]

\* C9: with no matchup rows (an empty list among them) the text still begins
\* with the headline and has no "Key Matchups:" line; the line is there exactly
\* when there is at least one pair.
C9_SectionOmittedWhenEmpty ==
    (pc = "done" /\ ~sms.raised) =>
        /\ sms.out # <<>>
        /\ sms.out[1] = Headline(j)
        /\ (CurRows = <<>> /\ NxtRows = <<>>) => KeyMatchups \notin Range(sms.out)
        /\ KeyMatchups \in Range(sms.out)
               <=> (pair_by_matchup_id(CurRows) # <<>> \/ pair_by_matchup_id(NxtRows) # <<>>)

C9_Witness ==
    /\ pc = "done"
    /\ ~sms.raised
    /\ j.matchups.shape = "list"
    /\ j.matchups.current = ListC(<<>>)
    /\ sms.out[1] = "Dynasty -- Week 3 Preview"
    /\ KeyMatchups \notin Range(sms.out)

\* The bullets of the "Key Matchups:" section: the lines after it, up to the
\* blank line that ends it.
KeyAt(out) == Min({n \in 1..Len(out) : out[n] = KeyMatchups})
KeyEnd(out) == Min({n \in KeyAt(out)..Len(out) : out[n] = ""})
KeyBullets(out) ==
    IF KeyMatchups \in Range(out)
    THEN SubSeq(out, KeyAt(out) + 1, KeyEnd(out) - 1)
    ELSE <<>>

\* The week the section is about: the current one when it has a pair.
WeekPairs ==
    IF pair_by_matchup_id(CurRows) # <<>>
    THEN pair_by_matchup_id(CurRows)
    ELSE pair_by_matchup_id(NxtRows)

DocNames == roster_owner_maps(ListC(as_list(j.users)), ListC(as_list(j.rosters)))

\* C10: the section never mixes weeks and never has more than three bullets:
\* they are the lines of the first min(3, n) pairs of the current week when it
\* has a pair, of the next week otherwise, in pair order.
C10_OneWeekAtMostThree ==
    (pc = "done" /\ ~sms.raised) =>
        LET bullets == KeyBullets(sms.out) IN
        /\ Len(bullets) <= 3
        /\ Len(bullets) = (IF Len(WeekPairs) < 3 THEN Len(WeekPairs) ELSE 3)
        /\ \A n \in 1..Len(bullets) : bullets[n] = "* " \o LineOf(WeekPairs[n], DocNames)

C10_Witness ==
    /\ pc = "done"
    /\ ~sms.raised
    /\ Len(pair_by_matchup_id(CurRows)) > 3
    /\ pair_by_matchup_id(NxtRows) # <<>>
    /\ Len(KeyBullets(sms.out)) = 3
    /\ KeyBullets(sms.out)[1] = "* Sam vs Team 2 -- 100.0-0.0"

====
